---- MODULE Spec2Model ----
(***************************************************************************)
(* HerPicks client-side catalog view engine (src/js/app.js):               *)
(* load -> filter -> sort -> paginate -> render, plus the search overlay.  *)
(*                                                                         *)
(* Strings are sequences of one-character strings, so that toLowerCase,    *)
(* trim, includes and localeCompare are computed rather than assumed.      *)
(* Prices are in cents and ratings in tenths of a star.  An optional field *)
(* of a product that is absent from the JSON is absent from the record.    *)
(***************************************************************************)
EXTENDS Integers, Sequences, FiniteSets, TLC

VARIABLES
    pc,                 \* "loading" | "loaded" | "ready": position of init()
    pathIdx,            \* loadProducts: index of the next candidate path
    page,               \* the document this script runs in (fixed per run)
    allProducts,        \* app.js:7
    filteredProducts,   \* app.js:8
    preSort,            \* filteredProducts as it is at app.js:186, before the sort
    currentCategory,    \* app.js:9
    currentSort,        \* app.js:10
    displayCount,       \* app.js:11
    gridCards,          \* cards mounted in #products-grid
    featuredCards,      \* cards mounted in #featured-grid
    resultsCount,       \* text of .results-count: <<shown, total>>
    loadMoreShown,      \* #load-more has display other than 'none'
    searchQuery,        \* value of the search input at its last input event
    searchResults,      \* items mounted in .search-results
    detail,             \* content of #product-detail
    docTitle,           \* document.title (empty: as the document sets it)
    ldJson,             \* the application/ld+json scripts appended to <head>
    handlers,           \* listeners this script has added, per control
    lastEvent,          \* the step that ran last, and what it was given; while
                        \* loading, the fetches made so far and their outcomes
    form,               \* #newsletter-form: data-formspree-id and action
    emailInput,         \* value of #newsletter-email
    btn,                \* #newsletter-btn: textContent and disabled
    status,             \* #newsletter-status: textContent and className
    localStorage,       \* the herpicks_subscribers item and how the store behaves
    submitPc,           \* position of the submit handler: "idle" | "awaiting"
    resetTimer,         \* the setTimeout of app.js:415 is pending
    outbound,           \* what the last submission sent out, and where
    productsJson,       \* the products of data/products.json
    productsDir,        \* the directory products/ exists
    productPages,       \* slugs of the pages written into products/
    socialContent,      \* titles generate-social has written captions for
    lastRun,            \* the last run of a script: its command line and result
    exposed             \* window.HerPicks: the arrays app.js:441 put into it

engineVars == <<pc, pathIdx, page, allProducts, filteredProducts, preSort,
          currentCategory, currentSort, displayCount, gridCards, featuredCards,
          resultsCount, loadMoreShown, searchQuery, searchResults, detail,
          docTitle, ldJson, handlers, lastEvent>>

newsletterVars == <<form, emailInput, btn, status, localStorage, submitPc,
                    resetTimer, outbound>>

toolVars == <<productsJson, productsDir, productPages, socialContent, lastRun>>

\* What the catalog view engine never touches.
rest == <<newsletterVars, toolVars, exposed>>

vars == <<engineVars, rest>>

-----------------------------------------------------------------------------
(* Bounds of the model *)

MaxHeadLen == 2     \* longest hand-written part of a served catalog
MaxLoadMore == 1    \* load-more clicks per page view

-----------------------------------------------------------------------------
(* Strings *)

ToLowerChar(c) ==
    CASE c = "A" -> "a" [] c = "K" -> "k" [] c = "L" -> "l" [] c = "M" -> "m"
      [] c = "N" -> "n" [] c = "P" -> "p" [] c = "R" -> "r" [] c = "S" -> "s"
      [] c = "I" -> "i" [] c = "T" -> "t"
      [] OTHER -> c

toLowerCase(s) == [i \in 1..Len(s) |-> ToLowerChar(s[i])]

RECURSIVE trimStart(_)
trimStart(s) == IF s # <<>> /\ Head(s) = " " THEN trimStart(Tail(s)) ELSE s

RECURSIVE trimEnd(_)
trimEnd(s) ==
    IF s # <<>> /\ s[Len(s)] = " " THEN trimEnd(SubSeq(s, 1, Len(s) - 1)) ELSE s

trim(s) == trimEnd(trimStart(s))

includes(s, q) ==
    \E i \in 0..(Len(s) - Len(q)) : SubSeq(s, i + 1, i + Len(q)) = q

\* Collation order of the characters that occur in date strings.
Collation == <<"-", "0", "1", "2", "3", "4", "5", "6", "7", "8", "9">>

CharRank(c) == CHOOSE i \in 1..Len(Collation) : Collation[i] = c

\* String.prototype.localeCompare on date strings: -1, 0 or 1.
localeCompare(a, b) ==
    LET n == IF Len(a) < Len(b) THEN Len(a) ELSE Len(b)
        diff == {i \in 1..n : a[i] # b[i]}
        d == CHOOSE i \in diff : \A j \in diff : i <= j
    IN  IF a = b THEN 0
        ELSE IF diff = {} THEN (IF Len(a) < Len(b) THEN -1 ELSE 1)
        ELSE IF CharRank(a[d]) < CharRank(b[d]) THEN -1 ELSE 1

-----------------------------------------------------------------------------
(* Program constants *)

PRODUCTS_PER_PAGE == 12

ALL == <<"a", "l", "l">>

-----------------------------------------------------------------------------
(* Products served as data/products.json *)

Has(p, f) == f \in DOMAIN p

Skin == <<"S", "k", "i", "n">>
Lips == <<"L", "i", "p", "s">>
D2024_12_31 == <<"2", "0", "2", "4", "-", "1", "2", "-", "3", "1">>
D2025_01_10 == <<"2", "0", "2", "5", "-", "0", "1", "-", "1", "0">>
D2025_02_01 == <<"2", "0", "2", "5", "-", "0", "2", "-", "0", "1">>

Pool == <<
    [id |-> 1, title |-> <<"R", "o", "s", "e">>, description |-> <<"o", "i", "l">>,
     category |-> Skin, subcategory |-> <<"S", "e", "r", "a">>,
     price |-> 2000, rating |-> 42, reviewCount |-> 100,
     featured |-> FALSE, dateAdded |-> D2025_01_10],
    [id |-> 2, title |-> <<"M", "a", "t", "t", "e">>, description |-> <<"r", "e", "d">>,
     category |-> Lips,
     price |-> 1500, rating |-> 48, reviewCount |-> 500, badge |-> "bestseller",
     featured |-> TRUE, dateAdded |-> D2025_01_10],
    [id |-> 3, title |-> <<"M", "a", "s", "k">>,
     category |-> <<"s", "k", "i", "n">>, subcategory |-> <<"L", "I", "P", "S">>,
     price |-> 1500, rating |-> 42, reviewCount |-> 100]
>>

\* A block of further entries, long enough to need a second page.
BulkSize == PRODUCTS_PER_PAGE

Filler(i) ==
    LET base == [id |-> 100 + i, title |-> <<"P", "a", "d">>, description |-> <<"a">>,
                 category |-> IF i % 4 = 0 THEN <<"S", "K", "I", "N">> ELSE Skin,
                 price |-> 500 + 500 * ((i * 7) % 5),
                 rating |-> 38 + (i % 10),
                 reviewCount |-> 10 * ((i * 3) % 4)]
        flagged == IF i % 3 = 2 THEN base ELSE base @@ [featured |-> (i % 3 = 0)]
        dated == IF i % 3 = 1 THEN flagged
                 ELSE flagged @@ [dateAdded |-> IF i % 3 = 0 THEN D2024_12_31
                                                ELSE D2025_02_01]
    IN  IF i % 2 = 0 THEN dated @@ [subcategory |-> Lips] ELSE dated

Bulk == [i \in 1..BulkSize |-> Filler(i)]

Heads ==
    LET idx == UNION {[1..n -> 1..Len(Pool)] : n \in 0..MaxHeadLen}
    IN  {[i \in DOMAIN s |-> Pool[s[i]]] :
            s \in {t \in idx : \A i, j \in DOMAIN t : t[i] = t[j] => i = j}}

Catalogs == Heads \cup {<<Pool[i]>> \o Bulk : i \in {1, 2}}

\* What an OK response of a candidate path can carry as its JSON body.
Bodies ==
    {[kind |-> "array", products |-> k] : k \in Catalogs}
        \cup {[kind |-> "object", products |-> k] : k \in Catalogs}
        \cup {[kind |-> "null", products |-> <<>>],
              [kind |-> "objectWithoutProducts", products |-> <<>>]}

Paths == <<"data/products.json", "/data/products.json", "../data/products.json">>

SortKeys == {"price-low", "price-high", "rating", "reviews", "newest",
             "featured", "popular"}

RecognizedKeys == {"price-low", "price-high", "rating", "reviews", "newest"}

\* data-category of the .filter-tag buttons (empty when the attribute is absent).
FilterTags == {<<>>, ALL, <<"A", "L", "L">>, <<"S", "K", "I", "N">>, Lips,
               <<"n", "o", "n", "e">>}

\* Values of the id parameter of the product page's address, as
\* URLSearchParams.get returns them: signs, digits, a point and blanks (no
\* exponent, no 0x form).
IdParams == {<<>>, <<"1">>, <<"3">>, <<"0", "1">>, <<"1", ".", "0">>, <<" ", "2">>,
             <<"9", "9", "9">>, <<"x", "1">>, <<"1", "0", "1">>}

\* The product page; the id field is absent when the address has no id.
ProductPage ==
    [name |-> "product", grid |-> FALSE, featuredGrid |-> FALSE, search |-> FALSE,
     loadMore |-> FALSE, category |-> <<>>, tags |-> {}, sorts |-> {}, detail |-> TRUE]

\* The documents the script is included in: which elements exist, the
\* data-category of <body> (empty when the attribute is absent), the
\* data-category of the filter buttons and the options of #sort-select.
Pages ==
    {[name |-> "shop", grid |-> TRUE, featuredGrid |-> FALSE, search |-> FALSE,
      loadMore |-> TRUE, category |-> <<>>, tags |-> FilterTags, sorts |-> SortKeys,
      detail |-> FALSE],
     [name |-> "category", grid |-> TRUE, featuredGrid |-> FALSE, search |-> FALSE,
      loadMore |-> TRUE, category |-> Skin, tags |-> FilterTags,
      sorts |-> {"featured", "price-low", "rating", "newest"}, detail |-> FALSE],
     [name |-> "deals", grid |-> TRUE, featuredGrid |-> TRUE, search |-> TRUE,
      loadMore |-> FALSE, category |-> ALL, tags |-> {<<>>, Lips},
      sorts |-> {"featured", "price-high", "reviews"}, detail |-> FALSE],
     [name |-> "home", grid |-> FALSE, featuredGrid |-> TRUE, search |-> TRUE,
      loadMore |-> FALSE, category |-> <<>>, tags |-> {}, sorts |-> {},
      detail |-> FALSE]}
        \cup {ProductPage} \cup {ProductPage @@ [id |-> v] : v \in IdParams}

\* The catalogs a page is served: the page that has both the grid and the
\* search overlay is exercised on the short catalogs only.
Served(pg) == IF pg.grid /\ pg.search THEN Heads ELSE Catalogs

\* Texts typed into the search input.
Queries == {<<>>, <<"s">>, <<" ", "K">>, <<"S", "K">>, <<"s", "k", " ">>,
            <<" ", "a", "t", "T">>, <<"z", "z">>}

-----------------------------------------------------------------------------
(* Filter *)

sameCategoryExact(p, c) == p.category = c

sameCategory(p, c) == toLowerCase(p.category) = toLowerCase(c)

sameSubcategoryByCategory(p, c) == toLowerCase(p.category) = toLowerCase(c)

sameSubcategory(p, c) ==
    Has(p, "subcategory") /\ toLowerCase(p.subcategory) = toLowerCase(c)

hasPageCategory(pageCategory) == pageCategory # <<>> /\ pageCategory # ALL

filterStageFallback(all, category, pageCategory) ==
    LET byCategory ==
            IF category = ALL THEN all
            ELSE SelectSeq(all, LAMBDA p : sameCategory(p, category))
        inPage == SelectSeq(all, LAMBDA p : sameCategory(p, pageCategory))
        chosen == IF hasPageCategory(pageCategory)
                  THEN IF category # ALL
                       THEN SelectSeq(inPage, LAMBDA p : sameSubcategory(p, category))
                       ELSE inPage
                  ELSE byCategory
    IN  IF chosen = <<>> THEN all ELSE chosen

filterStage(all, category, pageCategory) ==
    LET byCategory ==
            IF category = ALL THEN all
            ELSE SelectSeq(all, LAMBDA p : sameCategory(p, category))
        inPage == SelectSeq(all, LAMBDA p : sameCategory(p, pageCategory))
    IN  IF hasPageCategory(pageCategory)
        THEN IF category # ALL
             THEN SelectSeq(inPage, LAMBDA p : sameSubcategory(p, category))
             ELSE inPage
        ELSE byCategory

-----------------------------------------------------------------------------
(* Sort *)

truthy(p, f) == Has(p, f) /\ p[f]

dateOf(p) == IF Has(p, "dateAdded") THEN p.dateAdded ELSE <<>>

compareRatingAscending(key, a, b) ==
    CASE key = "price-low" -> a.price - b.price
      [] key = "price-high" -> b.price - a.price
      [] key = "rating" -> a.rating - b.rating
      [] key = "reviews" -> b.reviewCount - a.reviewCount
      [] key = "newest" -> localeCompare(dateOf(b), dateOf(a))
      [] OTHER -> (IF truthy(b, "featured") THEN 1 ELSE 0)
                    - (IF truthy(a, "featured") THEN 1 ELSE 0)

compareNoDefault(key, a, b) ==
    CASE key = "price-low" -> a.price - b.price
      [] key = "price-high" -> b.price - a.price
      [] key = "rating" -> b.rating - a.rating
      [] key = "reviews" -> b.reviewCount - a.reviewCount
      [] key = "newest" -> localeCompare(dateOf(b), dateOf(a))
      [] key = "featured" -> (IF truthy(b, "featured") THEN 1 ELSE 0)
                                - (IF truthy(a, "featured") THEN 1 ELSE 0)
      [] OTHER -> 0

\* The comparator the switch at app.js:188 hands to Array.prototype.sort.
compare(key, a, b) ==
    CASE key = "price-low" -> a.price - b.price
      [] key = "price-high" -> b.price - a.price
      [] key = "rating" -> b.rating - a.rating
      [] key = "reviews" -> b.reviewCount - a.reviewCount
      [] key = "newest" -> localeCompare(dateOf(b), dateOf(a))
      [] OTHER -> (IF truthy(b, "featured") THEN 1 ELSE 0)
                    - (IF truthy(a, "featured") THEN 1 ELSE 0)

insertSortedUnstable(sorted, x, key) ==
    LET keep == Cardinality({j \in 1..Len(sorted) : compare(key, sorted[j], x) < 0})
    IN  SubSeq(sorted, 1, keep) \o <<x>> \o SubSeq(sorted, keep + 1, Len(sorted))

\* Array.prototype.sort is stable: x goes behind every element it does not
\* sort strictly before.
insertSorted(sorted, x, key) ==
    LET keep == Cardinality({j \in 1..Len(sorted) : compare(key, sorted[j], x) <= 0})
    IN  SubSeq(sorted, 1, keep) \o <<x>> \o SubSeq(sorted, keep + 1, Len(sorted))

RECURSIVE sortPrefix(_, _, _)
sortPrefix(seq, n, key) ==
    IF n = 0 THEN <<>> ELSE insertSorted(sortPrefix(seq, n - 1, key), seq[n], key)

sortStage(seq, key) == sortPrefix(seq, Len(seq), key)

-----------------------------------------------------------------------------
(* Render *)

\* Math.round of a rating given in tenths.
round(rating) == (rating + 5) \div 10

productCardHTML(p) ==
    [id |-> p.id, title |-> p.title, category |-> p.category,
     stars |-> round(p.rating), reviewCount |-> p.reviewCount, price |-> p.price,
     badge |-> IF Has(p, "badge") THEN p.badge ELSE ""]

renderProductsUnlimited(products, limit) ==
    [cards |-> [i \in 1..Len(products) |-> productCardHTML(products[i])],
     count |-> <<Len(products), Len(products)>>,
     loadMore |-> FALSE]

renderProductsOfferMore(products, limit) ==
    LET items == IF limit # 0
                 THEN SubSeq(products, 1, IF limit < Len(products) THEN limit ELSE Len(products))
                 ELSE products
    IN  [cards |-> [i \in 1..Len(items) |-> productCardHTML(items[i])],
         count |-> <<Len(items), Len(products)>>,
         loadMore |-> Len(items) <= Len(products)]

\* limit = 0 stands for a call without the third argument.
renderProducts(products, limit) ==
    LET items == IF limit # 0
                 THEN SubSeq(products, 1, IF limit < Len(products) THEN limit ELSE Len(products))
                 ELSE products
    IN  [cards |-> [i \in 1..Len(items) |-> productCardHTML(items[i])],
         count |-> <<Len(items), Len(products)>>,
         loadMore |-> Len(items) < Len(products)]

renderFeatured(all) ==
    LET eligible == SelectSeq(all, LAMBDA p :
                        (Has(p, "badge") /\ p.badge = "bestseller") \/ p.rating >= 45)
    IN  renderProducts(SubSeq(eligible, 1, IF Len(eligible) < 4 THEN Len(eligible) ELSE 4), 0)

\* filteredProducts bound to the catalog array itself instead of a copy of it.
applyFiltersAndRenderInPlace(all, category, pageCategory, sortKey, count) ==
    LET filtered == filterStage(all, category, pageCategory)
        sorted == sortStage(filtered, sortKey)
        aliased == category = ALL /\ ~hasPageCategory(pageCategory)
    IN  [allProducts |-> IF aliased THEN sorted ELSE all,
         preSort |-> filtered, filteredProducts |-> sorted,
         grid |-> renderProducts(sorted, count)]

\* The module state and the grid after applyFiltersAndRender.
applyFiltersAndRender(all, category, pageCategory, sortKey, count) ==
    LET filtered == filterStage(all, category, pageCategory)
        sorted == sortStage(filtered, sortKey)
    IN  [allProducts |-> all, preSort |-> filtered, filteredProducts |-> sorted,
         grid |-> renderProducts(sorted, count)]

-----------------------------------------------------------------------------
(* Search *)

searchResultHTML(p) == [id |-> p.id, title |-> p.title, price |-> p.price]

searchMatchesUncapped(all, q) ==
    SelectSeq(all, LAMBDA p :
        \/ includes(toLowerCase(p.title), q)
        \/ includes(toLowerCase(p.category), q)
        \/ (Has(p, "description") /\ includes(toLowerCase(p.description), q)))

searchMatches(all, q) ==
    LET hits == SelectSeq(all, LAMBDA p :
                    \/ includes(toLowerCase(p.title), q)
                    \/ includes(toLowerCase(p.category), q)
                    \/ (Has(p, "description") /\ includes(toLowerCase(p.description), q)))
    IN  SubSeq(hits, 1, IF Len(hits) < 8 THEN Len(hits) ELSE 8)

searchInputAnyLength(all, value) ==
    LET q == trim(toLowerCase(value))
    IN  IF q = <<>> THEN <<>>
        ELSE LET matches == searchMatches(all, q)
             IN  [i \in 1..Len(matches) |-> searchResultHTML(matches[i])]

\* The content of .search-results after an input event with this value.
searchInput(all, value) ==
    LET q == trim(toLowerCase(value))
    IN  IF q = <<>> \/ Len(q) < 2 THEN <<>>
        ELSE LET matches == searchMatches(all, q)
             IN  [i \in 1..Len(matches) |-> searchResultHTML(matches[i])]

-----------------------------------------------------------------------------
(* Pagination *)

keepCount(count) == count

\* displayCount after the reset at app.js:141.
resetCount(count) == PRODUCTS_PER_PAGE

\* displayCount after the increment at app.js:159.
advanceCount(count) == count + PRODUCTS_PER_PAGE

-----------------------------------------------------------------------------
(* Product detail *)

IsDigit(c) == c \in {"0", "1", "2", "3", "4", "5", "6", "7", "8", "9"}

DigitValue(c) ==
    CASE c = "0" -> 0 [] c = "1" -> 1 [] c = "2" -> 2 [] c = "3" -> 3 [] c = "4" -> 4
      [] c = "5" -> 5 [] c = "6" -> 6 [] c = "7" -> 7 [] c = "8" -> 8 [] c = "9" -> 9

\* The value of a run of decimal digits (0 for the empty run).
digitsValue(s) ==
    LET v[n \in 0..Len(s)] ==
            IF n = 0 THEN 0 ELSE v[n - 1] * 10 + DigitValue(s[n])
    IN  v[Len(s)]

RECURSIVE NumberToString(_)
\* String(n) of a natural number.
NumberToString(n) ==
    LET digit == <<"0", "1", "2", "3", "4", "5", "6", "7", "8", "9">>[(n % 10) + 1]
    IN  IF n < 10 THEN <<digit>> ELSE Append(NumberToString(n \div 10), digit)

\* ToNumber of a string, as the == of a number and a string applies it:
\* blanks around the text are dropped, the empty text is 0, a signed decimal
\* literal is its value (int and the digits of the fraction), else NaN.
ToNumber(s) ==
    LET t == trim(s)
        signed == t # <<>> /\ t[1] \in {"+", "-"}
        unsigned == IF signed THEN Tail(t) ELSE t
        points == {i \in 1..Len(unsigned) : unsigned[i] = "."}
        dot == IF points = {} THEN Len(unsigned) + 1
               ELSE CHOOSE i \in points : \A j \in points : i <= j
        intPart == SubSeq(unsigned, 1, dot - 1)
        fracPart == SubSeq(unsigned, dot + 1, Len(unsigned))
        wellFormed == /\ \A i \in 1..Len(intPart) : IsDigit(intPart[i])
                      /\ \A i \in 1..Len(fracPart) : IsDigit(fracPart[i])
                      /\ Len(intPart) + Len(fracPart) > 0
    IN  IF t = <<>> THEN [nan |-> FALSE, int |-> 0, frac |-> 0]
        ELSE IF ~wellFormed THEN [nan |-> TRUE]
        ELSE [nan |-> FALSE,
              int |-> IF signed /\ t[1] = "-" THEN 0 - digitsValue(intPart)
                      ELSE digitsValue(intPart),
              frac |-> digitsValue(fracPart)]

\* The number p.id == id at app.js:204 compares a numeric p.id with: that
\* of the id of the address, and none (as for a text that is no number) when
\* the address has no id, null == number being false.
idOperand(pg) == IF Has(pg, "id") THEN ToNumber(pg.id) ELSE [nan |-> TRUE]

looseEquals(pid, n) == ~n.nan /\ n.frac = 0 /\ n.int = pid

productDetailHTML(p) ==
    [kind |-> "product", title |-> p.title, category |-> p.category,
     stars |-> round(p.rating), reviewCount |-> p.reviewCount, price |-> p.price,
     description |-> IF Has(p, "description") THEN p.description ELSE <<>>]

NotFoundHTML == [kind |-> "notFound", text |-> "Product not found."]

\* The schema.org object of app.js:247-265, as JSON.stringify writes it.
schemaOf(p) ==
    [name |-> p.title, price |-> p.price, priceCurrency |-> "USD",
     ratingValue |-> p.rating, reviewCount |-> p.reviewCount]
        @@ (IF Has(p, "description") THEN [description |-> p.description] ELSE <<>>)

TitleSuffix == <<" ", "-", " ", "H", "e", "r", "P", "i", "c", "k", "s">>

renderProductDetailFallback(all, pg) ==
    LET id == idOperand(pg)
        hits == {i \in 1..Len(all) : looseEquals(all[i].id, id)}
        first == IF hits # {} THEN CHOOSE i \in hits : \A j \in hits : i <= j ELSE 1
    IN  IF all = <<>>
        THEN [found |-> FALSE, detail |-> NotFoundHTML, title |-> <<>>, schema |-> <<>>]
        ELSE [found |-> TRUE, detail |-> productDetailHTML(all[first]),
              title |-> all[first].title \o TitleSuffix,
              schema |-> <<schemaOf(all[first])>>]

\* renderProductDetail on a page that has #product-detail: what it writes
\* to the container, whether and to what it sets document.title, and the
\* scripts it appends.
renderProductDetail(all, pg) ==
    LET id == idOperand(pg)
        hits == {i \in 1..Len(all) : looseEquals(all[i].id, id)}
        first == CHOOSE i \in hits : \A j \in hits : i <= j
    IN  IF hits = {}
        THEN [found |-> FALSE, detail |-> NotFoundHTML, title |-> <<>>, schema |-> <<>>]
        ELSE [found |-> TRUE, detail |-> productDetailHTML(all[first]),
              title |-> all[first].title \o TitleSuffix,
              schema |-> <<schemaOf(all[first])>>]

-----------------------------------------------------------------------------
(* Newsletter *)

SETUP_REQUIRED == <<"S", "E", "T", "U", "P", "_", "R", "E", "Q", "U", "I", "R", "E", "D">>

FormHash == <<"x", "p", "z", "k", "y", "z", "w", "y">>

\* #newsletter-form as index.html can carry it: data-formspree-id, and the
\* part of the action behind formspree.io/f/ (each absent when not given).
Forms ==
    {[dataId |-> SETUP_REQUIRED, actionPath |-> SETUP_REQUIRED],
     [actionPath |-> SETUP_REQUIRED],
     [dataId |-> <<" ">> \o FormHash, actionPath |-> SETUP_REQUIRED],
     [dataId |-> <<" ">>, actionPath |-> FormHash],
     [dataId |-> <<" ">>]}

\* Texts typed into #newsletter-email.
TypedEmails == {<<>>, <<" ">>, <<"a">>, <<" ", "a", " ">>, <<"b">>}

\* The herpicks_subscribers item: a store that works, a value that is not
\* the JSON of a list, a store whose getItem throws, a store whose setItem
\* throws.
Stores ==
    {[mode |-> "ok", subs |-> <<>>], [mode |-> "ok", subs |-> <<<<"b">>>>],
     [mode |-> "corrupt", subs |-> <<>>], [mode |-> "blocked", subs |-> <<>>],
     [mode |-> "full", subs |-> <<>>], [mode |-> "full", subs |-> <<<<"a">>>>]}

IsAlnum(c) ==
    \/ IsDigit(c)
    \/ c \in {"a", "b", "c", "d", "e", "f", "g", "h", "i", "j", "k", "l", "m",
              "n", "o", "p", "q", "r", "s", "t", "u", "v", "w", "x", "y", "z"}
    \/ c \in {"A", "B", "C", "D", "E", "F", "G", "H", "I", "J", "K", "L", "M",
              "N", "O", "P", "Q", "R", "S", "T", "U", "V", "W", "X", "Y", "Z"}

\* The group ([a-z0-9]+) of the match at app.js:353, on the text behind
\* formspree.io/f/ (empty: no match).
alnumPrefix(t) ==
    LET ends == {n \in 0..Len(t) : \A i \in 1..n : IsAlnum(t[i])}
    IN  SubSeq(t, 1, CHOOSE n \in ends : \A m \in ends : m <= n)

getFormspreeId(f) ==
    LET fromData == IF Has(f, "dataId") THEN trim(f.dataId) ELSE <<>>
    IN  IF fromData # <<>> THEN fromData
        ELSE IF Has(f, "actionPath") THEN alnumPrefix(f.actionPath)
        ELSE <<>>

formspreeReady(f) == getFormspreeId(f) # <<>> /\ getFormspreeId(f) # SETUP_REQUIRED

InSubs(store, email) == \E i \in 1..Len(store.subs) : store.subs[i] = email

\* The try block at app.js:374-380: whatever throws in it is swallowed.
saveSubscriber(store, email) ==
    IF store.mode = "ok" /\ ~InSubs(store, email)
    THEN [store EXCEPT !.subs = Append(@, email)]
    ELSE store

SuccessText == "You're on the list! Expect weekly beauty deals in your inbox."

\* The tail of the handler, app.js:409-418: the success state.  The input
\* it leaves is written down with what the submission sent out.
showSuccess(sent) ==
    /\ emailInput' = <<>>
    /\ btn' = [textContent |-> "Subscribed", disabled |-> TRUE]
    /\ status' = [textContent |-> SuccessText, className |-> "newsletter-status success"]
    /\ resetTimer' = TRUE
    /\ submitPc' = "idle"
    /\ outbound' = sent @@ [inputAfter |-> emailInput']

-----------------------------------------------------------------------------
(* Catalog tools (src/scripts): command lines *)

(* A command line is the sequence of its arguments, each a string.  The     *)
(* value of a flag that was given no argument is undefined.                *)
Undefined == <<"undefined">>

ADD == <<"a", "d", "d">>
ASIN == <<"a", "s", "i", "n">>
CATEGORY == <<"c", "a", "t", "e", "g", "o", "r", "y">>
COUNT == <<"c", "o", "u", "n", "t">>
DAYS == <<"d", "a", "y", "s">>
DRY_RUN == <<"d", "r", "y", "-", "r", "u", "n">>
ID == <<"i", "d">>
LIST == <<"l", "i", "s", "t">>
LIST_CATEGORIES == LIST \o <<"-">> \o <<"c", "a", "t", "e", "g", "o", "r", "i", "e", "s">>
PRICE == <<"p", "r", "i", "c", "e">>
TITLE == <<"t", "i", "t", "l", "e">>
TRUE_TEXT == <<"t", "r", "u", "e">>

Dashes == <<"-", "-">>

\* The option --name as it is typed.
Opt(name) == Dashes \o name

startsWith(s, prefix) ==
    Len(s) >= Len(prefix) /\ SubSeq(s, 1, Len(prefix)) = prefix

\* s.slice(n)
sliceFrom(s, n) == SubSeq(s, n + 1, Len(s))

\* s.replace(pattern, by) with a string pattern: the first occurrence only.
replace(s, pattern, by) ==
    LET at == {i \in 0..(Len(s) - Len(pattern)) :
                    SubSeq(s, i + 1, i + Len(pattern)) = pattern}
        first == CHOOSE i \in at : \A j \in at : i <= j
    IN  IF at = {} THEN s
        ELSE SubSeq(s, 1, first) \o by \o SubSeq(s, first + Len(pattern) + 1, Len(s))

\* parseInt(s): blanks are skipped, then a sign and the longest run of
\* digits; NaN when there is no digit.  parseInt(undefined) is NaN.
parseInt(s) ==
    LET t == trimStart(s)
        signed == t # <<>> /\ t[1] \in {"+", "-"}
        unsigned == IF signed THEN Tail(t) ELSE t
        stops == {i \in 1..Len(unsigned) : ~IsDigit(unsigned[i])}
        end == IF stops = {} THEN Len(unsigned)
               ELSE (CHOOSE i \in stops : \A j \in stops : i <= j) - 1
        value == digitsValue(SubSeq(unsigned, 1, end))
    IN  IF end = 0 THEN [nan |-> TRUE]
        ELSE [nan |-> FALSE,
              int |-> IF signed /\ t[1] = "-" THEN 0 - value ELSE value]

\* n || fallback, for a number n: NaN and 0 are falsy.
orDefault(n, fallback) == IF n.nan \/ n.int = 0 THEN fallback ELSE n.int

Min(a, b) == IF a < b THEN a ELSE b

NoFlags == [k \in {} |-> k]

\* flags.name
flagOf(flags, name) == IF name \in DOMAIN flags THEN flags[name] ELSE Undefined

\* A flag's value used as a condition: undefined and the empty string are falsy.
given(v) == v # Undefined /\ v # <<>>

argAt(args, i) == IF i <= Len(args) THEN args[i] ELSE Undefined

\* update-products.js:98-100: the arguments are taken in pairs, whatever
\* they are, the first of a pair naming the flag and the second its value.
RECURSIVE updateFlagsFrom(_, _, _)
updateFlagsFrom(args, i, flags) ==
    IF i > Len(args) THEN flags
    ELSE updateFlagsFrom(args, i + 2,
            (replace(args[i], Dashes, <<>>) :> argAt(args, i + 1)) @@ flags)

updateFlags(args) == updateFlagsFrom(args, 1, NoFlags)

\* generate-products.js:636-641: an argument that starts with -- takes the
\* next argument as its value, whatever it is, or 'true' when there is none.
RECURSIVE generateFlagsFrom(_, _, _)
generateFlagsFrom(args, i, flags) ==
    IF i > Len(args) THEN flags
    ELSE IF startsWith(args[i], Dashes)
    THEN generateFlagsFrom(args, i + 2,
            (sliceFrom(args[i], 2) :>
                (IF given(argAt(args, i + 1)) THEN args[i + 1] ELSE TRUE_TEXT))
            @@ flags)
    ELSE generateFlagsFrom(args, i + 1, flags)

generateFlags(args) == generateFlagsFrom(args, 1, NoFlags)

\* generate-social.js:381-386: an argument that starts with -- takes the
\* next argument as its value unless that one starts with -- as well.
RECURSIVE socialFlagsFrom(_, _, _)
socialFlagsFrom(args, i, flags) ==
    IF i > Len(args) THEN flags
    ELSE IF startsWith(args[i], Dashes)
    THEN LET valued == /\ given(argAt(args, i + 1))
                       /\ ~startsWith(args[i + 1], Dashes)
         IN  socialFlagsFrom(args, IF valued THEN i + 2 ELSE i + 1,
                (sliceFrom(args[i], 2) :> (IF valued THEN args[i + 1] ELSE TRUE_TEXT))
                @@ flags)
    ELSE socialFlagsFrom(args, i + 1, flags)

socialFlags(args) == socialFlagsFrom(args, 1, NoFlags)

-----------------------------------------------------------------------------
(* Catalog tools (src/scripts): the catalog file and its writers *)

MaxRuns == 2        \* runs of the scripts, one after another

AFFILIATE_TAG == <<"sentientstudi-22">>

\* Dates are counted in days, which orders them as their ISO strings are.
Today == 20

makeAffiliateUrlBare(asin) == <<"https://www.amazon.com/dp/">> \o asin

makeAffiliateUrl(asin) ==
    <<"https://www.amazon.com/dp/">> \o asin \o <<"?tag=">> \o AFFILIATE_TAG

PlaceholderUrl == <<"#">>

\* A product of data/products.json as the scripts read and write it.
Entry(id, title, category, url, rating, day) ==
    [id |-> id, title |-> title, category |-> category, price |-> 1999,
     affiliateUrl |-> url, rating |-> rating, dateAdded |-> day]

\* A product without its dateAdded.
Undated(p) == [f \in DOMAIN p \ {"dateAdded"} |-> p[f]]

\* Catalogs the scripts may find: ids unique, in any order, and of any sign.
StartCatalogs == {
    <<>>,
    <<Entry(1, <<"a", "K">>, Skin, makeAffiliateUrl(<<"B", "1">>), 45, Today - 30),
      Entry(2, <<"T", "i">>, Lips, makeAffiliateUrl(<<"B", "7">>), 38, Today - 3)>>,
    <<Entry(5, <<"P", "a">>, Skin, makeAffiliateUrl(<<"B", "8">>), 47, Today - 40),
      Undated(Entry(3, <<"M", "i">>, Skin, makeAffiliateUrl(<<"B", "6">>), 41, Today))>>,
    <<Entry(0 - 2, <<"R", "a">>, Lips, makeAffiliateUrl(<<"B", "5">>), 44, Today)>> }

Ids(products) == {products[i].id : i \in 1..Len(products)}

Greatest(S) == CHOOSE m \in S : \A n \in S : n <= m

\* update-products.js:29-31
getNextIdLength(products) == Len(products) + 1

getNextId(products) == Greatest(Ids(products) \cup {0}) + 1

\* What JSON.parse makes of the documents that occur on the command lines;
\* it throws on any other text.
JsonDocs ==
    (<<"{", "a", "}">> :> [title |-> <<"M", "a">>, price |-> 2999, category |-> Lips,
                           asin |-> <<"B", "9">>])
    @@ (<<"{", "u", "}">> :> [title |-> <<"N", "i">>,
                              affiliateUrl |-> <<"https://example.com/p">>])
    @@ (<<"{", "}">> :> NoFlags)

jsonParse(text) ==
    IF text \in DOMAIN JsonDocs THEN [ok |-> TRUE, value |-> JsonDocs[text]]
    ELSE [ok |-> FALSE]

\* product.f || fallback
fieldOr(product, f, fallback) ==
    IF Has(product, f) /\ product[f] # <<>> THEN product[f] ELSE fallback

\* update-products.js:37-61: data.products after addProduct(data, product).
addProduct(products, product) ==
    Append(products,
        [id |-> getNextId(products),
         title |-> fieldOr(product, "title", <<"Untitled Product">>),
         category |-> fieldOr(product, "category", Skin),
         price |-> IF Has(product, "price") THEN product.price ELSE 0,
         affiliateUrl |-> IF Has(product, "asin") /\ product.asin # <<>>
                          THEN makeAffiliateUrl(product.asin)
                          ELSE fieldOr(product, "affiliateUrl", PlaceholderUrl),
         rating |-> IF Has(product, "rating") THEN product.rating ELSE 40,
         dateAdded |-> Today])

\* update-products.js:62-94: count placeholders of a category, numbered
\* from 1; a category without a template takes that of Skincare.
Templates ==
    (Skin :> [title |-> <<"New Skincare Product">>, price |-> 2499])
    @@ (Lips :> [title |-> <<"New Makeup Product">>, price |-> 1999])

generateProducts(category, count) ==
    [i \in 1..(IF count > 0 THEN count ELSE 0) |->
        LET template == IF category \in DOMAIN Templates THEN Templates[category]
                        ELSE Templates[Skin]
        IN  [title |-> template.title \o <<" ">> \o NumberToString(i),
             price |-> template.price,
             category |-> category]]

RECURSIVE addEach(_, _, _)
addEach(products, new, i) ==
    IF i > Len(new) THEN products
    ELSE addEach(addProduct(products, new[i]), new, i + 1)

\* update-products.js:96-137: a run of the script over the catalog it loads:
\* its exit code, whether it saved, the products it handed to addProduct and
\* the products the file then holds.
updateProducts(products, args) ==
    LET flags == updateFlags(args)
        placeholders == generateProducts(flags[CATEGORY],
                            orDefault(parseInt(flagOf(flags, COUNT)), 5))
    IN  IF given(flagOf(flags, ADD))
        THEN LET doc == jsonParse(flags[ADD])
             IN  IF doc.ok
                 THEN [exit |-> 0, saved |-> TRUE, inputs |-> <<doc.value>>,
                       products |-> addProduct(products, doc.value)]
                 ELSE [exit |-> 1, saved |-> FALSE, inputs |-> <<>>,
                       products |-> products]
        ELSE IF given(flagOf(flags, CATEGORY))
        THEN [exit |-> 0, saved |-> TRUE, inputs |-> placeholders,
              products |-> addEach(products, placeholders, 1)]
        ELSE [exit |-> 0, saved |-> FALSE, inputs |-> <<>>, products |-> products]

\* generate-products.js:49-92: Object.keys(CATEGORIES)
CATEGORIES == <<Skin, Lips>>

\* generate-products.js:94-150: the curated products of each category.
PRODUCT_DATABASE ==
    (Skin :> << [title |-> <<"A", "k">>, asin |-> <<"B", "1">>, reviewCount |-> 5,
                 price |-> 1899, rating |-> 46],
                [title |-> <<"S", "a">>, asin |-> <<"B", "2">>, reviewCount |-> 9,
                 price |-> 2599, rating |-> 44],
                [title |-> <<"M", "i">>, asin |-> <<"B", "6">>, reviewCount |-> 7,
                 price |-> 1299, rating |-> 41] >>)
    @@ (Lips :> << [title |-> <<"L", "a">>, asin |-> <<"B", "3">>, reviewCount |-> 4,
                    price |-> 999, rating |-> 43],
                   [title |-> <<"T", "I">>, asin |-> <<"B", "7">>, reviewCount |-> 8,
                    price |-> 1499, rating |-> 38] >>)

\* generate-products.js:151-158, on titles of letters and digits.
slugify(text) == trim(toLowerCase(text))

\* generate-products.js:210-212
getNextIdOfPages(products) ==
    IF Len(products) > 0 THEN Greatest(Ids(products)) + 1 ELSE 1

\* list.slice(0, n)
sliceTo(list, n) ==
    LET end == IF n >= 0 THEN Min(n, Len(list)) ELSE Len(list) + n
    IN  SubSeq(list, 1, end)

Titles(products) == {toLowerCase(products[i].title) : i \in 1..Len(products)}

keepAll(pool, existing) == pool

\* generate-products.js:708-714
notInCatalog(pool, existing) ==
    SelectSeq(pool, LAMBDA p : toLowerCase(p.title) \notin Titles(existing))

\* generate-products.js:677-680
isDryRun(flags) == flagOf(flags, DRY_RUN) = TRUE_TEXT

isDryRunNamed(flags) == DRY_RUN \in DOMAIN flags

NoRun(products, code) ==
    [exit |-> code, mkdir |-> FALSE, pages |-> {}, saved |-> FALSE,
     products |-> products, inputs |-> <<>>, generated |-> <<>>]

\* generate-products.js:645-784: a run of main() over the catalog it loads:
\* its exit code, whether it made products/, the pages it wrote, whether it
\* saved the catalog, the products the file then holds and those it made.
generatePages(existing, args) ==
    LET flags == generateFlags(args)
        category == flagOf(flags, CATEGORY)
        known == {i \in 1..Len(CATEGORIES) :
                    toLowerCase(CATEGORIES[i]) = toLowerCase(category)}
        normalizedCategory == CATEGORIES[CHOOSE i \in known : \A j \in known : i <= j]
        count == Min(orDefault(parseInt(flagOf(flags, COUNT)), 5), 20)
        dryRun == isDryRun(flags)
        sorted == SortSeq(PRODUCT_DATABASE[normalizedCategory],
                          LAMBDA a, b : a.reviewCount > b.reviewCount)
        pool == notInCatalog(sorted, existing)
        selected == sliceTo(pool, count)
        nextId == getNextIdOfPages(existing)
        generated == [i \in 1..Len(selected) |->
                        [id |-> nextId + (i - 1),
                         title |-> selected[i].title,
                         category |-> normalizedCategory,
                         price |-> selected[i].price,
                         affiliateUrl |-> makeAffiliateUrl(selected[i].asin),
                         rating |-> selected[i].rating,
                         dateAdded |-> Today]]
    IN  IF given(flagOf(flags, LIST_CATEGORIES)) THEN NoRun(existing, 0)
        ELSE IF ~given(category) \/ known = {} THEN NoRun(existing, 1)
        ELSE IF pool = <<>> THEN NoRun(existing, 0)
        ELSE [exit |-> 0,
              mkdir |-> ~dryRun,
              pages |-> IF dryRun THEN {}
                        ELSE {slugify(generated[i].title) : i \in 1..Len(generated)},
              saved |-> ~dryRun /\ generated # <<>>,
              products |-> IF ~dryRun /\ generated # <<>> THEN existing \o generated
                           ELSE existing,
              inputs |-> selected,
              generated |-> generated]

\* generate-social.js:466-468: the products added on the cutoff day or later.
addedSince(products, cutoff) ==
    SelectSeq(products, LAMBDA p : Has(p, "dateAdded") /\ p.dateAdded >= cutoff)

\* generate-social.js:480-482: the comparator of the sort 'new' is negative.
newerFirst(a, b) ==
    IF Has(a, "dateAdded") /\ Has(b, "dateAdded") /\ a.dateAdded # b.dateAdded
    THEN a.dateAdded > b.dateAdded
    ELSE IF Has(a, "dateAdded") # Has(b, "dateAdded") THEN Has(a, "dateAdded")
    ELSE a.rating > b.rating

\* Array.prototype.sort with that comparator: stable.
RECURSIVE sortNewest(_)
sortNewest(products) ==
    IF products = <<>> THEN <<>>
    ELSE LET n == Len(products)
             p == products[n]
             front == sortNewest(SubSeq(products, 1, n - 1))
             later == {i \in 1..Len(front) : newerFirst(p, front[i])}
             at == IF later = {} THEN Len(front) + 1
                   ELSE CHOOSE i \in later : \A j \in later : i <= j
         IN  SubSeq(front, 1, at - 1) \o <<p>> \o SubSeq(front, at, Len(front))

recentIgnored(products, cutoff) == products

\* generate-social.js:444-454: the recent products if there is any, else all.
recentOrAll(products, cutoff) ==
    IF addedSince(products, cutoff) # <<>> THEN addedSince(products, cutoff)
    ELSE products

\* generate-social.js:390-590: a run of main() over the products it loads,
\* given no option but --category, --id, --count and --days: the options as
\* it read them, its exit code and the products it writes captions for.
generateSocial(all, args) ==
    LET flags == socialFlags(args)
        category == flagOf(flags, CATEGORY)
        productId == IF given(flagOf(flags, ID)) THEN parseInt(flags[ID])
                     ELSE [nan |-> TRUE]
        byId == ~productId.nan /\ productId.int # 0
        count == orDefault(parseInt(flagOf(flags, COUNT)), 10)
        days == orDefault(parseInt(flagOf(flags, DAYS)), 7)
        ofCategory == IF given(category)
                      THEN SelectSeq(all, LAMBDA p :
                                toLowerCase(p.category) = toLowerCase(category))
                      ELSE all
        rated == SelectSeq(ofCategory, LAMBDA p : p.rating >= 40)
        recent == IF days < 999 THEN recentOrAll(rated, Today - days) ELSE rated
        limited == sliceTo(sortNewest(recent), count)
        found == SelectSeq(all, LAMBDA p : p.id = productId.int)
        options == [byId |-> byId, days |-> days, category |-> category]
    IN  IF byId
        THEN IF found = <<>> THEN options @@ [exit |-> 1, products |-> <<>>]
             ELSE options @@ [exit |-> 0, products |-> found]
        ELSE IF given(category) /\ ofCategory = <<>>
        THEN options @@ [exit |-> 1, products |-> <<>>]
        ELSE options @@ [exit |-> 0, products |-> limited]

-----------------------------------------------------------------------------
(* State machine *)

\* The newsletter form before any submission, on a page without input.
NewsletterIdle ==
    /\ emailInput = <<>>
    /\ btn = [textContent |-> "Subscribe", disabled |-> FALSE]
    /\ status = [textContent |-> "", className |-> "newsletter-status"]
    /\ submitPc = "idle"
    /\ resetTimer = FALSE
    /\ outbound = [kind |-> "none"]

EngineInit ==
    /\ pc = "loading"
    /\ pathIdx = 1
    /\ page \in Pages
    /\ allProducts = <<>>
    /\ filteredProducts = <<>>
    /\ preSort = <<>>
    /\ currentCategory = ALL
    /\ currentSort = "featured"
    /\ displayCount = 12
    /\ gridCards = <<>>
    /\ featuredCards = <<>>
    /\ resultsCount = <<0, 0>>
    /\ loadMoreShown = FALSE
    /\ searchQuery = <<>>
    /\ searchResults = <<>>
    /\ detail = [kind |-> "static"]
    /\ docTitle = <<>>
    /\ ldJson = <<>>
    /\ handlers = [search |-> 0, filter |-> 0, sort |-> 0, loadMore |-> 0]
    /\ lastEvent = [kind |-> "fetch", log |-> <<>>]
    /\ exposed = [allProducts |-> <<>>, filteredProducts |-> <<>>]

\* No script has run.
ToolsIdle ==
    /\ productsJson = <<>>
    /\ productsDir = FALSE
    /\ productPages = {}
    /\ socialContent = {}
    /\ lastRun = [tool |-> "none", n |-> 0]

Init ==
    /\ EngineInit
    /\ NewsletterIdle
    /\ ToolsIdle
    /\ form = [dataId |-> SETUP_REQUIRED, actionPath |-> SETUP_REQUIRED]
    /\ localStorage = [mode |-> "ok", subs |-> <<>>]

view == <<currentCategory, currentSort, displayCount, preSort, gridCards,
          featuredCards, resultsCount, loadMoreShown>>

search == <<searchQuery, searchResults>>

detailView == <<detail, docTitle, ldJson>>

\* The listeners init() adds before it renders: setupSearch on the search
\* input; on a page with the grid, setupFilters on every .filter-tag button
\* and setupSort on #sort-select and #load-more.
setupHandlers(pg) ==
    [search |-> IF pg.search THEN 1 ELSE 0,
     filter |-> IF pg.grid THEN Cardinality(pg.tags) ELSE 0,
     sort |-> IF pg.grid /\ pg.sorts # {} THEN 1 ELSE 0,
     loadMore |-> IF pg.grid /\ pg.loadMore THEN 1 ELSE 0]

\* The candidate whose body the loop at app.js:33 left with (0 when the loop
\* ran out of candidates).
servedBy(log) ==
    IF log # <<>> /\ log[Len(log)].outcome = "ok" THEN Len(log) ELSE 0

\* loadProducts ends: the await in init() resumes.
loadDone(products, log) ==
    /\ allProducts' = products
    /\ filteredProducts' = products
    /\ pc' = "loaded"
    /\ pathIdx' = 0
    /\ lastEvent' = [kind |-> "load", log |-> log]

FetchFailsSkipping ==
    /\ pc = "loading"
    /\ \E outcome \in {"reject", "notOk", "badJson"} :
        LET log == Append(lastEvent.log, [path |-> Paths[pathIdx], outcome |-> outcome])
        IN  IF pathIdx < Len(Paths)
            THEN /\ pathIdx' = Len(Paths)
                 /\ lastEvent' = [kind |-> "fetch", log |-> log]
                 /\ UNCHANGED <<pc, allProducts, filteredProducts>>
            ELSE loadDone(<<>>, log)
    /\ UNCHANGED <<page, view, search, detailView, handlers, rest>>

FetchFailsThrows ==
    /\ pc = "loading"
    /\ \E outcome \in {"reject", "notOk", "badJson"} :
        LET log == Append(lastEvent.log, [path |-> Paths[pathIdx], outcome |-> outcome])
        IN  IF pathIdx < Len(Paths)
            THEN /\ pathIdx' = pathIdx + 1
                 /\ lastEvent' = [kind |-> "fetch", log |-> log]
                 /\ UNCHANGED <<pc, allProducts, filteredProducts>>
            ELSE /\ pc' = "failed"
                 /\ pathIdx' = 0
                 /\ lastEvent' = [kind |-> "load", log |-> log]
                 /\ UNCHANGED <<allProducts, filteredProducts>>
    /\ UNCHANGED <<page, view, search, detailView, handlers, rest>>

FetchFailsStopsOnBadJson ==
    /\ pc = "loading"
    /\ \E outcome \in {"reject", "notOk", "badJson"} :
        LET log == Append(lastEvent.log, [path |-> Paths[pathIdx], outcome |-> outcome])
        IN  IF pathIdx < Len(Paths) /\ outcome # "badJson"
            THEN /\ pathIdx' = pathIdx + 1
                 /\ lastEvent' = [kind |-> "fetch", log |-> log]
                 /\ UNCHANGED <<pc, allProducts, filteredProducts>>
            ELSE loadDone(<<>>, log)
    /\ UNCHANGED <<page, view, search, detailView, handlers, rest>>

\* One turn of the loop at app.js:33 that ends in the catch or falls through
\* the if: the fetch of Paths[pathIdx] is rejected, answers non-OK, or answers
\* OK with a body that is not JSON.  After the last candidate, data is still
\* null: the throw at app.js:39 and the outer catch.
FetchFails ==
    /\ pc = "loading"
    /\ \E outcome \in {"reject", "notOk", "badJson"} :
        LET log == Append(lastEvent.log, [path |-> Paths[pathIdx], outcome |-> outcome])
        IN  IF pathIdx < Len(Paths)
            THEN /\ pathIdx' = pathIdx + 1
                 /\ lastEvent' = [kind |-> "fetch", log |-> log]
                 /\ UNCHANGED <<pc, allProducts, filteredProducts>>
            ELSE loadDone(<<>>, log)
    /\ UNCHANGED <<page, view, search, detailView, handlers, rest>>

\* The fetch of Paths[pathIdx] answers OK with a JSON body: the loop breaks.
\* A null body takes the throw at app.js:39; an object without a products
\* field is not iterable at app.js:41; both end in the outer catch.
FetchSucceeds ==
    /\ pc = "loading"
    /\ \E body \in Bodies :
        /\ body.products \in Served(page)
        /\ loadDone(IF body.kind \in {"array", "object"} THEN body.products ELSE <<>>,
                    Append(lastEvent.log,
                           [path |-> Paths[pathIdx], outcome |-> "ok", body |-> body]))
    /\ UNCHANGED <<page, view, search, detailView, handlers, rest>>

appliedAppending(category, sortKey, count) ==
    LET r == applyFiltersAndRender(allProducts, category, page.category, sortKey, count)
    IN  /\ allProducts' = r.allProducts
        /\ preSort' = r.preSort
        /\ filteredProducts' = r.filteredProducts
        /\ gridCards' = gridCards \o r.grid.cards
        /\ resultsCount' = r.grid.count
        /\ loadMoreShown' = (page.loadMore /\ r.grid.loadMore)

\* The grid part of a handler: applyFiltersAndRender with these arguments.
applied(category, sortKey, count) ==
    LET r == applyFiltersAndRender(allProducts, category, page.category, sortKey, count)
    IN  /\ allProducts' = r.allProducts
        /\ preSort' = r.preSort
        /\ filteredProducts' = r.filteredProducts
        /\ gridCards' = r.grid.cards
        /\ resultsCount' = r.grid.count
        /\ loadMoreShown' = (page.loadMore /\ r.grid.loadMore)

RenderPageNoAwait ==
    /\ pc \in {"loading", "loaded"}
    /\ pc' = "ready"
    /\ lastEvent' = [kind |-> "init", served |-> servedBy(lastEvent.log)]
    /\ handlers' = setupHandlers(page)
    /\ IF page.detail
       THEN LET r == renderProductDetail(allProducts, page)
            IN  /\ detail' = r.detail
                /\ docTitle' = IF r.found THEN r.title ELSE docTitle
                /\ ldJson' = ldJson \o r.schema
       ELSE UNCHANGED detailView
    /\ featuredCards' = IF page.featuredGrid THEN renderFeatured(allProducts).cards
                        ELSE featuredCards
    /\ IF page.grid
       THEN applied(currentCategory, currentSort, displayCount)
       ELSE UNCHANGED <<allProducts, preSort, filteredProducts, gridCards,
                        resultsCount, loadMoreShown>>
    /\ UNCHANGED <<pathIdx, page, currentCategory, currentSort, displayCount, search, rest>>

\* init() after the await: the setup calls, then renderPage.  .results-count
\* and #load-more belong to the grid's toolbar: what renderFeatured writes to
\* them on a page that has both grids is overwritten by the grid's render.
RenderPage ==
    /\ pc = "loaded"
    /\ pc' = "ready"
    /\ lastEvent' = [kind |-> "init", served |-> servedBy(lastEvent.log)]
    /\ handlers' = setupHandlers(page)
    /\ IF page.detail
       THEN LET r == renderProductDetail(allProducts, page)
            IN  /\ detail' = r.detail
                /\ docTitle' = IF r.found THEN r.title ELSE docTitle
                /\ ldJson' = ldJson \o r.schema
       ELSE UNCHANGED detailView
    /\ featuredCards' = IF page.featuredGrid THEN renderFeatured(allProducts).cards
                        ELSE featuredCards
    /\ IF page.grid
       THEN applied(currentCategory, currentSort, displayCount)
       ELSE UNCHANGED <<allProducts, preSort, filteredProducts, gridCards,
                        resultsCount, loadMoreShown>>
    /\ UNCHANGED <<pathIdx, page, currentCategory, currentSort, displayCount, search, rest>>

\* Click on a .filter-tag button.
FilterClick ==
    /\ pc = "ready" /\ page.grid
    /\ \E tag \in page.tags :
        LET category == IF tag = <<>> THEN ALL ELSE tag
        IN  /\ currentCategory' = category
            /\ displayCount' = resetCount(displayCount)
            /\ applied(category, currentSort, resetCount(displayCount))
            /\ lastEvent' = [kind |-> "filter", tag |-> tag, countBefore |-> displayCount]
    /\ UNCHANGED <<pc, pathIdx, page, detailView, handlers, rest, currentSort, featuredCards, search>>

\* What a sort change found: the filter, the count, and the products of the
\* working set.
foundBySort ==
    [category |-> currentCategory, count |-> displayCount,
     products |-> {filteredProducts[i] : i \in 1..Len(filteredProducts)},
     total |-> Len(filteredProducts)]

SortChangeFromFirstPage ==
    /\ pc = "ready" /\ page.grid
    /\ \E key \in page.sorts :
        /\ currentSort' = key
        /\ displayCount' = resetCount(displayCount)
        /\ applied(currentCategory, key, resetCount(displayCount))
    /\ lastEvent' = [kind |-> "sort", before |-> foundBySort, shown |-> Len(gridCards)]
    /\ UNCHANGED <<pc, pathIdx, page, detailView, handlers, rest, currentCategory, featuredCards, search>>

\* Change of #sort-select.
SortChange ==
    /\ pc = "ready" /\ page.grid
    /\ \E key \in page.sorts :
        /\ currentSort' = key
        /\ applied(currentCategory, key, displayCount)
    /\ lastEvent' = [kind |-> "sort", before |-> foundBySort, shown |-> Len(gridCards)]
    /\ UNCHANGED <<pc, pathIdx, page, detailView, handlers, rest, currentCategory, displayCount, featuredCards, search>>

LoadMoreClickNextPage ==
    /\ pc = "ready" /\ page.grid /\ page.loadMore
    /\ displayCount < PRODUCTS_PER_PAGE * (MaxLoadMore + 1)
    /\ LET r == renderProducts(SubSeq(filteredProducts, displayCount + 1,
                                      Len(filteredProducts)), PRODUCTS_PER_PAGE)
       IN  /\ displayCount' = advanceCount(displayCount)
           /\ gridCards' = r.cards
           /\ resultsCount' = r.count
           /\ loadMoreShown' = r.loadMore
    /\ lastEvent' = [kind |-> "loadMore", category |-> currentCategory,
                     sort |-> currentSort, working |-> filteredProducts,
                     cards |-> gridCards]
    /\ UNCHANGED <<pc, pathIdx, page, detailView, handlers, rest, allProducts, filteredProducts, preSort,
                   currentCategory, currentSort, featuredCards, search>>

\* Click on #load-more.
LoadMoreClick ==
    /\ pc = "ready" /\ page.grid /\ page.loadMore
    /\ displayCount < PRODUCTS_PER_PAGE * (MaxLoadMore + 1)
    /\ LET r == renderProducts(filteredProducts, advanceCount(displayCount))
       IN  /\ displayCount' = advanceCount(displayCount)
           /\ gridCards' = r.cards
           /\ resultsCount' = r.count
           /\ loadMoreShown' = r.loadMore
    /\ lastEvent' = [kind |-> "loadMore", category |-> currentCategory,
                     sort |-> currentSort, working |-> filteredProducts,
                     cards |-> gridCards]
    /\ UNCHANGED <<pc, pathIdx, page, detailView, handlers, rest, allProducts, filteredProducts, preSort,
                   currentCategory, currentSort, featuredCards, search>>

SearchInputOverWorkingSet ==
    /\ pc = "ready" /\ page.search
    /\ \E value \in Queries :
        /\ searchQuery' = value
        /\ searchResults' = searchInput(filteredProducts, value)
    /\ lastEvent' = [kind |-> "search", shownBefore |-> Len(searchResults),
                      viewBefore |-> <<currentCategory, currentSort,
                                       displayCount, filteredProducts>>]
    /\ UNCHANGED <<pc, pathIdx, page, detailView, handlers, rest, allProducts, filteredProducts, view>>

\* Input event on the search overlay's text field.
SearchInput ==
    /\ pc = "ready" /\ page.search
    /\ \E value \in Queries :
        /\ searchQuery' = value
        /\ searchResults' = searchInput(allProducts, value)
    /\ lastEvent' = [kind |-> "search", shownBefore |-> Len(searchResults),
                      viewBefore |-> <<currentCategory, currentSort,
                                       displayCount, filteredProducts>>]
    /\ UNCHANGED <<pc, pathIdx, page, detailView, handlers, rest, allProducts, filteredProducts, view>>

\* A call of window.HerPicks.applyFiltersAndRender (app.js:441) by another
\* script of the page, with the state as the last handler left it.
Rerender ==
    /\ pc = "ready" /\ page.grid
    /\ applied(currentCategory, currentSort, displayCount)
    /\ lastEvent' = [kind |-> "rerender",
                      before |-> <<gridCards, resultsCount, loadMoreShown, handlers>>]
    /\ UNCHANGED <<pc, pathIdx, page, detailView, handlers, rest, currentCategory,
                   currentSort, displayCount, featuredCards, search>>

\* The engine stands still on the page the newsletter form is in.
NewsletterInit ==
    /\ EngineInit
    /\ page.name = "home"
    /\ NewsletterIdle
    /\ ToolsIdle
    /\ form \in Forms
    /\ localStorage \in Stores

\* The user types into #newsletter-email.
TypeEmail ==
    /\ \E v \in TypedEmails : emailInput' = v
    /\ UNCHANGED <<engineVars, toolVars, exposed, form, btn, status, localStorage, submitPc,
                   resetTimer, outbound>>

SubmitSavesLater ==
    /\ submitPc = "idle" /\ ~btn.disabled
    /\ LET email == trim(emailInput)
       IN  IF email = <<>> THEN UNCHANGED newsletterVars
           ELSE IF formspreeReady(form)
           THEN /\ btn' = [textContent |-> "Subscribing...", disabled |-> TRUE]
                /\ status' = [textContent |-> "", className |-> "newsletter-status"]
                /\ submitPc' = "awaiting"
                /\ outbound' = [kind |-> "post", id |-> getFormspreeId(form),
                                email |-> email, outcome |-> "pending"]
                /\ UNCHANGED <<emailInput, resetTimer, localStorage>>
           ELSE /\ localStorage' = saveSubscriber(localStorage, email)
                /\ showSuccess([kind |-> "mailto", email |-> email, outcome |-> "none"])
    /\ UNCHANGED <<engineVars, toolVars, exposed, form>>

\* Submit of #newsletter-form, up to the await of the fetch or, without a
\* Formspree id, through the mailto fallback to the end of the handler.  A
\* disabled submit button blocks the form's submission.
Submit ==
    /\ submitPc = "idle" /\ ~btn.disabled
    /\ LET email == trim(emailInput)
       IN  IF email = <<>> THEN UNCHANGED newsletterVars
           ELSE /\ localStorage' = saveSubscriber(localStorage, email)
                /\ IF formspreeReady(form)
                   THEN /\ btn' = [textContent |-> "Subscribing...", disabled |-> TRUE]
                        /\ status' = [textContent |-> "", className |-> "newsletter-status"]
                        /\ submitPc' = "awaiting"
                        /\ outbound' = [kind |-> "post", id |-> getFormspreeId(form),
                                        email |-> email, outcome |-> "pending"]
                        /\ UNCHANGED <<emailInput, resetTimer>>
                   ELSE showSuccess([kind |-> "mailto", email |-> email,
                                     outcome |-> "none"])
    /\ UNCHANGED <<engineVars, toolVars, exposed, form>>

RespondShowsFailure ==
    /\ submitPc = "awaiting"
    /\ \E outcome \in {"ok", "notOk", "notOkBadJson", "reject"} :
        IF outcome = "ok"
        THEN showSuccess([outbound EXCEPT !.outcome = outcome])
        ELSE /\ status' = [textContent |-> "Something went wrong.",
                           className |-> "newsletter-status error"]
             /\ btn' = [textContent |-> "Subscribe", disabled |-> FALSE]
             /\ submitPc' = "idle"
             /\ outbound' = [outbound EXCEPT !.outcome = outcome]
                                @@ [inputAfter |-> emailInput]
             /\ UNCHANGED <<emailInput, resetTimer>>
    /\ UNCHANGED <<engineVars, toolVars, exposed, form, localStorage>>

\* The fetch of app.js:388 settles: OK, non-OK with or without a JSON body,
\* or rejected; the handler resumes and runs to its end.
Respond ==
    /\ submitPc = "awaiting"
    /\ \E outcome \in {"ok", "notOk", "notOkBadJson", "reject"} :
        showSuccess([outbound EXCEPT !.outcome = outcome])
    /\ UNCHANGED <<engineVars, toolVars, exposed, form, localStorage>>

\* The timeout of app.js:415 fires.
TimerFires ==
    /\ resetTimer
    /\ resetTimer' = FALSE
    /\ btn' = [textContent |-> "Subscribe", disabled |-> FALSE]
    /\ UNCHANGED <<engineVars, toolVars, exposed, form, emailInput, status, localStorage, submitPc,
                   outbound>>

NewsletterNext ==
    \/ TypeEmail
    \/ Submit
    \/ Respond
    \/ TimerFires

SpecNewsletter == NewsletterInit /\ [][NewsletterNext]_vars

Next ==
    \/ FetchFails
    \/ FetchSucceeds
    \/ RenderPage
    \/ FilterClick
    \/ SortChange
    \/ LoadMoreClick
    \/ SearchInput
    \/ Rerender

Spec == Init /\ [][Next]_vars

-----------------------------------------------------------------------------
(* The scripts of src/scripts, run one after another from the command line *)

T1 == <<"M", "a">>
P1 == <<"2", "9", ".", "9", "9">>
A1 == <<"B", "9">>

\* The command SETUP-GUIDE.md gives for adding a product.
DocumentedAdd ==
    <<ADD, Opt(TITLE), T1, Opt(PRICE), P1, Opt(CATEGORY), Skin, Opt(ASIN), A1>>

UpdateCommands == {
    <<Opt(ADD), <<"{", "a", "}">>>>,
    <<Opt(ADD), <<"{", "u", "}">>>>,
    <<Opt(ADD), <<"{", "}">>>>,
    <<Opt(ADD), <<"{">>>>,
    <<Opt(CATEGORY), Skin, Opt(COUNT), <<"2">>>>,
    <<Opt(CATEGORY), Lips, Opt(COUNT), <<"0">>>>,
    <<Opt(LIST)>>,
    DocumentedAdd }

GenerateCommands == {
    <<Opt(CATEGORY), Skin>>,
    <<Opt(CATEGORY), <<"l", "i", "p", "s">>, Opt(COUNT), <<"1">>>>,
    <<Opt(CATEGORY), Skin, Opt(COUNT), <<"1">>, Opt(DRY_RUN)>>,
    <<Opt(CATEGORY), Skin, Opt(DRY_RUN), Opt(COUNT), <<"1">>>>,
    <<Opt(DRY_RUN), Opt(CATEGORY), Lips>>,
    <<Opt(CATEGORY), Lips, Opt(DRY_RUN), TRUE_TEXT>>,
    <<Opt(CATEGORY), <<"N", "a">>>>,
    <<Opt(LIST_CATEGORIES)>> }

SocialCommands == {
    <<>>,
    <<Opt(DAYS), <<"1">>>>,
    <<Opt(DAYS), <<"9", "9", "9">>>>,
    <<Opt(CATEGORY), Lips, Opt(DAYS), <<"5">>>>,
    <<Opt(COUNT), <<"1">>, Opt(DAYS), <<"1", "5">>>>,
    <<Opt(ID), <<"1">>>> }

ToolsInit ==
    /\ EngineInit
    /\ page.name = "home"
    /\ NewsletterIdle
    /\ form = [dataId |-> SETUP_REQUIRED, actionPath |-> SETUP_REQUIRED]
    /\ localStorage = [mode |-> "ok", subs |-> <<>>]
    /\ productsJson \in StartCatalogs
    /\ productsDir = FALSE
    /\ productPages = {}
    /\ socialContent = {}
    /\ lastRun = [tool |-> "none", n |-> 0]

\* node scripts/update-products.js args
RunUpdateProducts ==
    /\ lastRun.n < MaxRuns
    /\ \E args \in UpdateCommands :
        LET run == updateProducts(productsJson, args)
        IN  /\ productsJson' = IF run.saved THEN run.products ELSE productsJson
            /\ lastRun' = [tool |-> "update-products", n |-> lastRun.n + 1,
                           args |-> args, before |-> productsJson,
                           exit |-> run.exit, saved |-> run.saved,
                           inputs |-> run.inputs]
    /\ UNCHANGED <<engineVars, newsletterVars, exposed, productsDir, productPages,
                   socialContent>>

\* node scripts/generate-products.js args
RunGenerateProducts ==
    /\ lastRun.n < MaxRuns
    /\ \E args \in GenerateCommands :
        LET run == generatePages(productsJson, args)
        IN  /\ productsJson' = IF run.saved THEN run.products ELSE productsJson
            /\ productsDir' = (productsDir \/ run.mkdir)
            /\ productPages' = productPages \cup run.pages
            /\ lastRun' = [tool |-> "generate-products", n |-> lastRun.n + 1,
                           args |-> args, before |-> productsJson,
                           exit |-> run.exit, saved |-> run.saved,
                           inputs |-> run.inputs,
                           dirBefore |-> productsDir, pagesBefore |-> productPages]
    /\ UNCHANGED <<engineVars, newsletterVars, exposed, socialContent>>

\* node scripts/generate-social.js args
RunGenerateSocial ==
    /\ lastRun.n < MaxRuns
    /\ \E args \in SocialCommands :
        LET run == generateSocial(productsJson, args)
        IN  /\ socialContent' = socialContent \cup
                    {slugify(run.products[i].title) : i \in 1..Len(run.products)}
            /\ lastRun' = [tool |-> "generate-social", n |-> lastRun.n + 1,
                           args |-> args, before |-> productsJson,
                           exit |-> run.exit, saved |-> FALSE,
                           byId |-> run.byId, days |-> run.days,
                           category |-> run.category,
                           products |-> run.products]
    /\ UNCHANGED <<engineVars, newsletterVars, exposed, productsJson, productsDir,
                   productPages>>

ToolsNext ==
    \/ RunUpdateProducts
    \/ RunGenerateProducts
    \/ RunGenerateSocial

SpecTools == ToolsInit /\ [][ToolsNext]_vars

-----------------------------------------------------------------------------
(* Properties *)

\* The elements of seq at the positions idx, in the order of seq.
Picked(seq, idx) ==
    [k \in 1..Cardinality(idx) |->
        seq[CHOOSE i \in idx : Cardinality({j \in idx : j <= i}) = k]]

EqualIgnoringCase(a, b) == toLowerCase(a) = toLowerCase(b)

GridReady == pc = "ready" /\ page.grid

\* C1: on a page without a fixed category, the working set before sorting is
\* the catalog itself when the selected category is 'all', and otherwise the
\* catalog's products whose category equals the selection ignoring case, in
\* catalog order.
C1_FilterByCategory ==
    (GridReady /\ ~hasPageCategory(page.category)) =>
        preSort =
            IF currentCategory = ALL THEN allProducts
            ELSE Picked(allProducts,
                        {i \in 1..Len(allProducts) :
                            EqualIgnoringCase(allProducts[i].category, currentCategory)})

C1_Witness ==
    /\ GridReady /\ ~hasPageCategory(page.category)
    /\ lastEvent.kind = "filter"
    /\ currentCategory = <<"S", "K", "I", "N">>
    /\ Len(preSort) > 1
    /\ Len(preSort) < Len(allProducts)
    /\ \E i \in 1..Len(preSort) : preSort[i].category # currentCategory

\* C2: on a page with a fixed category P, the working set holds only products
\* of category P (ignoring case): all of them under the selection 'all', and
\* under any other selection S exactly those whose subcategory equals S
\* ignoring case; S is not compared with the category field.
C2_FilterBySubcategory ==
    (GridReady /\ hasPageCategory(page.category)) =>
        LET inPage == {i \in 1..Len(allProducts) :
                          EqualIgnoringCase(allProducts[i].category, page.category)}
            narrowed == {i \in inPage :
                            /\ Has(allProducts[i], "subcategory")
                            /\ EqualIgnoringCase(allProducts[i].subcategory, currentCategory)}
        IN  /\ \A i \in 1..Len(preSort) :
                    EqualIgnoringCase(preSort[i].category, page.category)
            /\ preSort = Picked(allProducts,
                                IF currentCategory = ALL THEN inPage ELSE narrowed)

C2_Witness ==
    /\ GridReady /\ hasPageCategory(page.category)
    /\ lastEvent.kind = "filter"
    /\ currentCategory = Lips
    /\ preSort # <<>>
    /\ \E i \in 1..Len(allProducts) : allProducts[i].category = Lips
    /\ \E i \in 1..Len(allProducts) :
        /\ EqualIgnoringCase(allProducts[i].category, page.category)
        /\ ~Has(allProducts[i], "subcategory")

\* The order a recognized key asks of two neighbours a, b of the working set.
InOrder(key, a, b) ==
    CASE key = "price-low" -> a.price <= b.price
      [] key = "price-high" -> a.price >= b.price
      [] key = "rating" -> a.rating >= b.rating
      [] key = "reviews" -> a.reviewCount >= b.reviewCount
      [] key = "newest" -> localeCompare(dateOf(a), dateOf(b)) >= 0

\* C3: after a sort change to a recognized key, every two neighbours of the
\* working set are in that key's order, and under newest no product without
\* dateAdded stands before a product with one.
C3_SortedByKey ==
    (GridReady /\ lastEvent.kind = "sort" /\ currentSort \in RecognizedKeys) =>
        /\ \A i \in 1..(Len(filteredProducts) - 1) :
                InOrder(currentSort, filteredProducts[i], filteredProducts[i + 1])
        /\ currentSort = "newest" =>
                \A i, j \in 1..Len(filteredProducts) :
                    (i < j /\ Has(filteredProducts[j], "dateAdded"))
                        => Has(filteredProducts[i], "dateAdded")

C3_Witness ==
    /\ GridReady /\ lastEvent.kind = "sort" /\ currentSort = "rating"
    /\ filteredProducts # preSort
    /\ \E i \in 1..(Len(filteredProducts) - 1) :
            filteredProducts[i].rating > filteredProducts[i + 1].rating

\* C4: sorting the sorted working set again by the same key changes nothing,
\* ties included.
C4_SortIdempotent ==
    GridReady => sortStage(filteredProducts, currentSort) = filteredProducts

C4_Witness ==
    /\ GridReady /\ lastEvent.kind = "sort"
    /\ filteredProducts # preSort
    /\ \E i \in 1..(Len(filteredProducts) - 1) :
        /\ compare(currentSort, filteredProducts[i], filteredProducts[i + 1]) = 0
        /\ filteredProducts[i] # filteredProducts[i + 1]

IsFeatured(p) == Has(p, "featured") /\ p.featured = TRUE

\* C5: under the key 'featured' or an unrecognized key the working set is the
\* featured products of the filtered sequence, in their order there, followed
\* by the others, in their order there.
C5_FeaturedFirst ==
    (GridReady /\ currentSort \notin RecognizedKeys) =>
        filteredProducts =
            Picked(preSort, {i \in 1..Len(preSort) : IsFeatured(preSort[i])})
                \o Picked(preSort, {i \in 1..Len(preSort) : ~IsFeatured(preSort[i])})

C5_Witness ==
    /\ GridReady /\ lastEvent.kind = "sort" /\ currentSort = "popular"
    /\ filteredProducts # preSort
    /\ Cardinality({i \in 1..Len(preSort) : IsFeatured(preSort[i])}) > 1
    /\ Cardinality({i \in 1..Len(preSort) : ~Has(preSort[i], "featured")}) > 0

\* C6: once the load has completed, no step changes the catalog.
C6_CatalogImmutable ==
    [][(pc \in {"loaded", "ready"}) => (allProducts' = allProducts)]_vars

C6_Witness ==
    /\ GridReady /\ lastEvent.kind = "sort"
    /\ currentCategory = ALL /\ ~hasPageCategory(page.category)
    /\ filteredProducts # allProducts
    /\ Len(filteredProducts) = Len(allProducts)

\* C7: displayCount starts at 12; a filter click sets it to 12, a load-more
\* click adds 12 to it, and no other step changes it.
C7_DisplayCount ==
    /\ displayCount = 12
    /\ [][/\ (lastEvent'.kind = "filter") => (displayCount' = 12)
          /\ (lastEvent'.kind = "loadMore") => (displayCount' = displayCount + 12)
          /\ (lastEvent'.kind \notin {"filter", "loadMore"})
                => (displayCount' = displayCount)]_vars

C7_Witness ==
    /\ lastEvent.kind = "filter"
    /\ lastEvent.countBefore = 24
    /\ displayCount = 12


\* C8: the grid holds the cards of the first min(displayCount, |working set|)
\* products of the sorted working set, and no more.
C8_RenderedPrefix ==
    GridReady =>
        LET n == Min(displayCount, Len(filteredProducts))
        IN  /\ Len(gridCards) <= n
            /\ gridCards = [i \in 1..n |-> productCardHTML(filteredProducts[i])]

C8_Witness ==
    /\ GridReady /\ lastEvent.kind = "sort"
    /\ Len(filteredProducts) > displayCount
    /\ Len(gridCards) = displayCount
    /\ filteredProducts # preSort

\* C9: the load-more control is shown exactly when displayCount is less than
\* the size of the working set; a page without the control never shows it.
C9_LoadMoreOffered ==
    GridReady =>
        IF page.loadMore
        THEN loadMoreShown <=> (displayCount < Len(filteredProducts))
        ELSE ~loadMoreShown

C9_Witness ==
    /\ GridReady /\ lastEvent.kind = "loadMore"
    /\ ~loadMoreShown
    /\ Len(filteredProducts) > PRODUCTS_PER_PAGE

\* C10: after an input event whose text has fewer than 2 characters the
\* results display is empty, whatever it held before.
C10_ShortQueryClears ==
    (lastEvent.kind = "search" /\ Len(searchQuery) < 2) => searchResults = <<>>

C10_Witness ==
    /\ lastEvent.kind = "search"
    /\ Len(searchQuery) = 1
    /\ lastEvent.shownBefore > 0
    /\ searchResults = <<>>

\* q occurs in s as a contiguous run of characters.
IsSubstring(q, s) ==
    \E i \in 0..Len(s) : \E j \in i..Len(s) : SubSeq(s, i + 1, j) = q

\* The positions of the catalog whose title, category or description holds q,
\* ignoring the case of the product's text.
Matching(q) ==
    {i \in 1..Len(allProducts) :
        \/ IsSubstring(q, toLowerCase(allProducts[i].title))
        \/ IsSubstring(q, toLowerCase(allProducts[i].category))
        \/ /\ Has(allProducts[i], "description")
           /\ IsSubstring(q, toLowerCase(allProducts[i].description))}

\* The result items of the first products, at most 8, of the catalog at idx.
FirstEight(idx) ==
    LET hits == Picked(allProducts, idx)
    IN  [k \in 1..Min(8, Len(hits)) |-> searchResultHTML(hits[k])]

\* C11 (as amended): for a typed text whose trimmed form has at least 2
\* characters, the results are the first products in catalog order, at most 8,
\* that hold the trimmed text, ignoring case, in title, category or description.
C11_SearchResults ==
    LET q == trim(toLowerCase(searchQuery))
    IN  (lastEvent.kind = "search" /\ Len(q) >= 2) =>
            /\ Len(searchResults) <= 8
            /\ searchResults = FirstEight(Matching(q))

C11_Witness ==
    /\ lastEvent.kind = "search"
    /\ searchQuery = <<"S", "K">>
    /\ Len(searchResults) = 8
    /\ Cardinality(Matching(<<"s", "k">>)) > 8
    /\ Cardinality(Matching(<<"s", "k">>)) < Len(allProducts)

\* C11 as stated: the same of the typed text itself, whenever it has at
\* least 2 characters.
C11_AsStated ==
    (lastEvent.kind = "search" /\ Len(searchQuery) >= 2) =>
        /\ Len(searchResults) <= 8
        /\ searchResults = FirstEight(Matching(toLowerCase(searchQuery)))

\* Product p holds q, ignoring the case of p's text.
HoldsText(p, q) ==
    LET at(t) == \E i \in 0..(Len(t) - Len(q)) :
                    \A k \in 1..Len(q) : ToLowerChar(t[i + k]) = q[k]
    IN  at(p.title) \/ at(p.category) \/ (Has(p, "description") /\ at(p.description))

\* What the catalog and the typed text alone say the results display holds.
SearchOf ==
    LET q == trim(toLowerCase(searchQuery))
        hits == SelectSeq(allProducts, LAMBDA p : HoldsText(p, q))
    IN  IF Len(q) < 2 THEN <<>>
        ELSE [k \in 1..Min(8, Len(hits)) |-> searchResultHTML(hits[k])]

-----------------------------------------------------------------------------
(* Load *)

\* The product list a parsed body gives the catalog (none: the outer catch).
ProductsOf(body) ==
    IF body.kind \in {"array", "object"} THEN body.products ELSE <<>>

Failed(entry) == entry.outcome # "ok"

\* C13: the fetches made are those of the candidate paths in their fixed
\* order, without gaps; every fetch before the last one failed (so a candidate
\* is fetched only after all earlier ones failed, and none after one that
\* succeeded); while the loop runs no fetch has succeeded; and when the loop
\* ends on a candidate that succeeded, the catalog is the one its body gives.
\* A candidate succeeds when its response is OK and its body parses.
C13_PathOrder ==
    (lastEvent.kind \in {"fetch", "load"}) =>
        LET log == lastEvent.log
        IN  /\ Len(log) <= Len(Paths)
            /\ \A i \in 1..Len(log) : log[i].path = Paths[i]
            /\ \A i \in 1..(Len(log) - 1) : Failed(log[i])
            /\ (lastEvent.kind = "fetch") =>
                    /\ pathIdx = Len(log) + 1
                    /\ \A i \in 1..Len(log) : Failed(log[i])
            /\ (lastEvent.kind = "load" /\ servedBy(log) # 0) =>
                    allProducts = ProductsOf(log[Len(log)].body)
            /\ (lastEvent.kind = "load" /\ servedBy(log) = 0) =>
                    Len(log) = Len(Paths)

C13_Witness ==
    /\ lastEvent.kind = "load"
    /\ Len(lastEvent.log) = 2
    /\ lastEvent.log[1].outcome = "notOk"
    /\ lastEvent.log[2].outcome = "ok"
    /\ lastEvent.log[2].path = "/data/products.json"
    /\ Len(allProducts) > 1

AllFailed(log) ==
    /\ Len(log) = Len(Paths)
    /\ \A i \in 1..Len(log) : log[i].outcome \in {"reject", "notOk"}

\* C14: when every candidate's fetch was rejected or answered non-OK,
\* loadProducts ends normally with an empty catalog and an empty working set,
\* and the render that follows mounts no card, counts zero products and
\* leaves the load-more control hidden.
C14_AllFail ==
    /\ (lastEvent.kind = "load" /\ AllFailed(lastEvent.log)) =>
            /\ pc = "loaded"
            /\ allProducts = <<>>
            /\ filteredProducts = <<>>
    /\ (lastEvent.kind = "init" /\ lastEvent.served = 0) =>
            /\ pc = "ready"
            /\ allProducts = <<>>
            /\ filteredProducts = <<>>
            /\ gridCards = <<>>
            /\ featuredCards = <<>>
            /\ resultsCount = <<0, 0>>
            /\ ~loadMoreShown

C14_Witness ==
    /\ lastEvent.kind = "init"
    /\ lastEvent.served = 0
    /\ page.grid /\ page.loadMore
    /\ pc = "ready"

\* The first candidate whose response was OK (0 when there is none).
FirstHttpSuccess(log) ==
    IF \E i \in 1..Len(log) : log[i].outcome \in {"ok", "badJson"}
    THEN CHOOSE i \in 1..Len(log) :
            /\ log[i].outcome \in {"ok", "badJson"}
            /\ \A j \in 1..(i - 1) : log[j].outcome \notin {"ok", "badJson"}
    ELSE 0

ParseFailedFirst(log) ==
    FirstHttpSuccess(log) # 0 /\ log[FirstHttpSuccess(log)].outcome = "badJson"

\* C15 as stated: once loadProducts has ended, if the body of the first
\* candidate that answered OK did not parse, the catalog is empty.
C15_AsStated ==
    (lastEvent.kind = "load" /\ ParseFailedFirst(lastEvent.log)) =>
        allProducts = <<>>

\* C15: when the body of the first candidate that answered OK does not parse,
\* loadProducts goes on: it ends only after fetching the last candidate or
\* on a candidate whose OK body parses, and the catalog is what that body
\* gives, and empty when the candidates run out.
C15_ParseFailureMovesOn ==
    (lastEvent.kind \in {"fetch", "load"} /\ ParseFailedFirst(lastEvent.log)) =>
        LET log == lastEvent.log
        IN  /\ (lastEvent.kind = "fetch") => pc = "loading"
            /\ (lastEvent.kind = "load") =>
                    /\ Len(log) = Len(Paths) \/ servedBy(log) # 0
                    /\ allProducts = IF servedBy(log) # 0
                                     THEN ProductsOf(log[Len(log)].body)
                                     ELSE <<>>

C15_Witness ==
    /\ lastEvent.kind = "load"
    /\ Len(lastEvent.log) = 2
    /\ lastEvent.log[1].outcome = "badJson"
    /\ lastEvent.log[2].outcome = "ok"
    /\ allProducts # <<>>

\* C16: while loadProducts is pending nothing has been rendered, no handler
\* has run and the catalog is still empty; and whenever the last step was a
\* render or a handler, loadProducts had resolved before it and the catalog
\* it saw is the resolved one.
C16_RenderAfterLoad ==
    /\ (pc = "loading") =>
            /\ lastEvent.kind = "fetch"
            /\ allProducts = <<>> /\ filteredProducts = <<>>
            /\ gridCards = <<>> /\ featuredCards = <<>> /\ searchResults = <<>>
    /\ (lastEvent.kind \notin {"fetch", "load"}) =>
            /\ pc = "ready"
            /\ pathIdx = 0

C16_Witness ==
    /\ lastEvent.kind = "search"
    /\ pc = "ready"
    /\ page.grid
    /\ gridCards # <<>>
    /\ searchResults # <<>>

-----------------------------------------------------------------------------
(* Product detail *)

\* The id of the address is the number pid, however it is written.
SameNumber(pid) ==
    Has(page, "id") /\ ToNumber(page.id) = [nan |-> FALSE, int |-> pid, frac |-> 0]

\* C17: on the product page, when the id of the address is the number of no
\* product of the catalog (the address has no id, the id is no number, no
\* product has that number, or the catalog is empty), the page becomes ready
\* with 'Product not found.' in the container, document.title as it was and
\* no structured-data script appended.
C17_NotFound ==
    (pc = "ready" /\ page.detail
        /\ \A i \in 1..Len(allProducts) : ~SameNumber(allProducts[i].id)) =>
        /\ lastEvent.kind = "init"
        /\ detail = NotFoundHTML
        /\ docTitle = <<>>
        /\ ldJson = <<>>

C17_Witness ==
    /\ pc = "ready" /\ page.detail
    /\ Has(page, "id") /\ page.id = <<"9", "9", "9">>
    /\ Len(allProducts) > 1
    /\ detail = NotFoundHTML
    /\ ldJson = <<>>

\* C18 as stated: on the product page a product is in the container only
\* when its id, written out, is exactly the id of the address; for every
\* other address the container holds the not-found state.
C18_ExactIdOnly ==
    (pc = "ready" /\ page.detail) =>
        LET exact == {i \in 1..Len(allProducts) :
                        Has(page, "id") /\ NumberToString(allProducts[i].id) = page.id}
        IN  IF exact = {} THEN detail = NotFoundHTML
            ELSE \E i \in exact : detail = productDetailHTML(allProducts[i])

-----------------------------------------------------------------------------
(* Re-render *)

\* C19: after applyFiltersAndRender is called again with the catalog,
\* currentCategory, currentSort and displayCount unchanged, the mounted cards,
\* the results count and the load-more visibility are what they were before
\* the call, the grid holds one card per product of the displayed prefix (the
\* content was replaced, not appended to), and the listeners are those init()
\* added.
C19_RerenderIdempotent ==
    (lastEvent.kind = "rerender") =>
        /\ lastEvent.before = <<gridCards, resultsCount, loadMoreShown, handlers>>
        /\ Len(gridCards) = Min(displayCount, Len(filteredProducts))
        /\ handlers = setupHandlers(page)

C19_Witness ==
    /\ lastEvent.kind = "rerender"
    /\ currentCategory # ALL
    /\ currentSort = "price-low"
    /\ displayCount = 2 * PRODUCTS_PER_PAGE
    /\ Len(gridCards) > PRODUCTS_PER_PAGE

-----------------------------------------------------------------------------
(* Unmatched selection *)

\* Product p is selected by the selection c of a page of category pc0.
Selected(p, c, pc0) ==
    IF hasPageCategory(pc0)
    THEN /\ EqualIgnoringCase(p.category, pc0)
         /\ Has(p, "subcategory")
         /\ EqualIgnoringCase(p.subcategory, c)
    ELSE EqualIgnoringCase(p.category, c)

\* C20: when the selection is not 'all' and selects no product of the catalog
\* (no product has that category or, on a page with a fixed category, no
\* product of the page has that subcategory, a product without the field
\* having none), the handler ends with an empty working set, an empty grid,
\* a count of zero and the load-more control hidden.
C20_UnmatchedSelection ==
    (GridReady /\ currentCategory # ALL
        /\ \A i \in 1..Len(allProducts) :
                ~Selected(allProducts[i], currentCategory, page.category)) =>
        /\ filteredProducts = <<>>
        /\ gridCards = <<>>
        /\ resultsCount = <<0, 0>>
        /\ ~loadMoreShown

C20_Witness ==
    /\ GridReady /\ hasPageCategory(page.category)
    /\ lastEvent.kind = "filter"
    /\ currentCategory = <<"n", "o", "n", "e">>
    /\ \E i \in 1..Len(allProducts) :
            /\ EqualIgnoringCase(allProducts[i].category, page.category)
            /\ ~Has(allProducts[i], "subcategory")
    /\ filteredProducts = <<>>
    /\ gridCards = <<>>

-----------------------------------------------------------------------------
(* Newsletter *)

\* A submission has run to the end of its handler.
Submitted == outbound.kind # "none" /\ outbound.outcome # "pending"

SuccessShown ==
    /\ status = [textContent |-> SuccessText, className |-> "newsletter-status success"]
    /\ btn.textContent = "Subscribed"

\* C21 as stated: whatever a submission sent out, its email is in the stored
\* subscriber list from the moment the request goes out, and the handler ends
\* with the success message shown and the input cleared.
C21_AsStated ==
    /\ (outbound.kind # "none") => InSubs(localStorage, outbound.email)
    /\ Submitted => outbound.inputAfter = <<>>
    /\ (Submitted /\ btn.disabled) => SuccessShown

\* C21: whatever a submission with a non-empty trimmed email sent out (a
\* POST that was answered OK or non-OK or was rejected, or the mailto of a
\* form without a Formspree id), the handler ends with the success message
\* shown and the input cleared; and when the local store reads as a list and
\* can be written, the trimmed email is in the stored list from the moment
\* the request goes out.  A store that throws leaves the email unstored.
C21_SubmitSucceeds ==
    /\ (outbound.kind # "none") =>
            /\ outbound.email # <<>>
            /\ (localStorage.mode = "ok") => InSubs(localStorage, outbound.email)
            /\ (outbound.kind = "post") = formspreeReady(form)
    /\ Submitted => outbound.inputAfter = <<>>
    /\ (Submitted /\ btn.disabled) => SuccessShown
    /\ (localStorage.mode # "ok") => localStorage \in Stores

C21_Witness ==
    /\ Submitted
    /\ outbound.kind = "post" /\ outbound.outcome = "reject"
    /\ outbound.email = <<"a">>
    /\ localStorage = [mode |-> "ok", subs |-> <<<<"b">>, <<"a">>>>]
    /\ SuccessShown

\* The products the last run appended to the catalog file stand at these
\* places of it.
Appended == (Len(lastRun.before) + 1)..Len(productsJson)

Writer == lastRun.tool \in {"update-products", "generate-products"}

\* C22: from a catalog of unique ids, after any series of runs of
\* update-products and generate-products the ids of the catalog are pairwise
\* distinct, and each id a run assigned is greater than every id that was in
\* the catalog before that product was appended.
C22_FreshIds ==
    /\ \A i, j \in 1..Len(productsJson) :
            i # j => productsJson[i].id # productsJson[j].id
    /\ Writer =>
            /\ SubSeq(productsJson, 1, Len(lastRun.before)) = lastRun.before
            /\ \A i \in Appended : \A j \in 1..(i - 1) :
                    productsJson[i].id > productsJson[j].id

C22_Witness ==
    /\ lastRun.tool = "generate-products"
    /\ Len(productsJson) >= Len(lastRun.before) + 2
    /\ \E i \in 1..Len(lastRun.before) :
            lastRun.before[i].affiliateUrl = PlaceholderUrl

\* C23 as stated: every product a run of update-products or generate-products
\* appended to the catalog has an affiliateUrl that carries the tag
\* sentientstudi-22.
C23_AsStated ==
    Writer => \A i \in Appended : includes(productsJson[i].affiliateUrl, AFFILIATE_TAG)

\* C23: every product a run of update-products appended from a description
\* that gives an ASIN, and every product a run of generate-products appended,
\* has an affiliateUrl that carries the tag sentientstudi-22.
C23_TaggedWhenAsin ==
    Writer =>
        /\ Len(productsJson) - Len(lastRun.before) \in {0, Len(lastRun.inputs)}
        /\ \A i \in Appended :
                LET described == lastRun.inputs[i - Len(lastRun.before)]
                IN  (lastRun.tool = "generate-products"
                        \/ (Has(described, "asin") /\ described.asin # <<>>))
                    => includes(productsJson[i].affiliateUrl, AFFILIATE_TAG)

\* update-products --add has appended a product that came with an ASIN.
C23_Witness ==
    /\ lastRun.tool = "update-products"
    /\ Appended # {}
    /\ Has(lastRun.inputs[1], "asin")

\* C24: no product a run of generate-products appended has the title, up to
\* the case of its letters, of another entry of the catalog: one that was
\* there before the run or one the same run appended.
C24_NoDuplicateTitles ==
    (lastRun.tool = "generate-products") =>
        \A i \in Appended : \A j \in 1..Len(productsJson) :
            j # i => toLowerCase(productsJson[i].title)
                        # toLowerCase(productsJson[j].title)

\* A run for Skincare over a catalog that holds one of the curated Skincare
\* titles in another case.
C24_Witness ==
    /\ lastRun.tool = "generate-products"
    /\ Appended # {}
    /\ \E j \in 1..Len(lastRun.before) : lastRun.before[j].title = <<"a", "K">>
    /\ \A i \in Appended : productsJson[i].category = Skin

\* C25: a run of generate-products whose command line holds --dry-run, at
\* whatever place among the other options, writes no product page, does not
\* create products/ and leaves data/products.json as it was.
C25_DryRunWritesNothing ==
    (/\ lastRun.tool = "generate-products"
     /\ \E i \in 1..Len(lastRun.args) : lastRun.args[i] = Opt(DRY_RUN))
        => /\ productsJson = lastRun.before
           /\ productsDir = lastRun.dirBefore
           /\ productPages = lastRun.pagesBefore

\* C26: the documented command, update-products.js add --title T --price P
\* --category C --asin A, appends one product of title T, price P and
\* category C whose affiliate link is built from A, and saves the catalog.
C26_DocumentedAddAppends ==
    (lastRun.tool = "update-products" /\ lastRun.args = DocumentedAdd)
        => /\ lastRun.saved
           /\ Len(productsJson) = Len(lastRun.before) + 1
           /\ SubSeq(productsJson, 1, Len(lastRun.before)) = lastRun.before
           /\ LET added == productsJson[Len(productsJson)]
              IN  /\ added.title = T1
                  /\ added.price = 2999
                  /\ added.category = Skin
                  /\ added.affiliateUrl = makeAffiliateUrl(A1)

\* A run of generate-social that was given no --id and fewer than 999 days.
RecencyAsked ==
    /\ lastRun.tool = "generate-social"
    /\ ~lastRun.byId
    /\ lastRun.days < 999

Recent(p) == Has(p, "dateAdded") /\ p.dateAdded >= Today - lastRun.days

\* The products of the catalog that pass the filters other than recency.
Eligible ==
    SelectSeq(lastRun.before, LAMBDA p :
        /\ p.rating >= 40
        /\ given(lastRun.category)
                => toLowerCase(p.category) = toLowerCase(lastRun.category))

C28_ExposedReflectsState ==
    (pc \in {"loaded", "ready"}) =>
        /\ exposed.allProducts = allProducts
        /\ exposed.filteredProducts = filteredProducts

\* C29: a sort change leaves currentCategory and displayCount as they were,
\* and the grid it renders holds as many cards as before, min(displayCount,
\* size of the working set), over a working set of the same products.
C29_SortKeepsView ==
    (lastEvent.kind = "sort") =>
        /\ currentCategory = lastEvent.before.category
        /\ displayCount = lastEvent.before.count
        /\ {filteredProducts[i] : i \in 1..Len(filteredProducts)}
                = lastEvent.before.products
        /\ Len(filteredProducts) = lastEvent.before.total
        /\ Len(gridCards) = Min(displayCount, Len(filteredProducts))
        /\ Len(gridCards) = lastEvent.shown

\* A sort change after a load-more click has reordered a grid of more than
\* one page of cards.
C29_Witness ==
    /\ lastEvent.kind = "sort"
    /\ displayCount = 2 * PRODUCTS_PER_PAGE
    /\ Len(gridCards) > PRODUCTS_PER_PAGE
    /\ gridCards # [i \in 1..Len(gridCards) |-> productCardHTML(preSort[i])]

\* C30: a load-more click leaves the working set, currentCategory and
\* currentSort as they were, and the grid it renders starts with the cards
\* shown before, followed by at most 12 more cards of the working set.
C30_LoadMoreExtends ==
    (lastEvent.kind = "loadMore") =>
        /\ filteredProducts = lastEvent.working
        /\ currentCategory = lastEvent.category
        /\ currentSort = lastEvent.sort
        /\ Len(gridCards) >= Len(lastEvent.cards)
        /\ Len(gridCards) <= Len(lastEvent.cards) + PRODUCTS_PER_PAGE
        /\ SubSeq(gridCards, 1, Len(lastEvent.cards)) = lastEvent.cards
        /\ gridCards = [i \in 1..Len(gridCards) |-> productCardHTML(filteredProducts[i])]

C30_Witness ==
    /\ lastEvent.kind = "loadMore"
    /\ Len(lastEvent.cards) = PRODUCTS_PER_PAGE
    /\ Len(gridCards) > PRODUCTS_PER_PAGE
    /\ currentSort # "featured"

====
